---- MODULE Spec2Model ----
(***************************************************************************)
(* Model of mt_nodes_list.py: the record normalizer (human_time,           *)
(* flatten_dict, clean_name, normalize_node) and the table renderer        *)
(* (print_table).                                                          *)
(*                                                                         *)
(* Python strings are sequences of one-character strings.  A Python value  *)
(* is a record [t, i, s, d]: t is the type tag, i the number of an int or  *)
(* bool (a float carries its value in hundredths), s the characters of a   *)
(* str, d the items of a dict (a sequence of [k, v], in insertion order)   *)
(* or the elements of a list.                                              *)
(***************************************************************************)
EXTENDS Integers, Sequences, FiniteSets, TLC

VARIABLES
    nodes,        \* print_table: the snapshot, nodes.values() in iteration order
    compact,      \* print_table: parameter compact
    sort_hop,     \* print_table: parameter sort_hop
    tz,           \* the local UTC offset, in seconds, of the process
    pc,           \* print_table: position in the function
    rows,         \* print_table: rows
    headers,      \* print_table: headers (a set, then the ordered list)
    col_widths,   \* print_table: col_widths
    header_line,  \* print_table: header_line
    idx,          \* print_table: index of the last row printed
    out,          \* the lines written to standard output
    raw,          \* normalize_node: the argument of one call
    ret           \* normalize_node: the outcome of that call

vars == <<nodes, compact, sort_hop, tz, pc, rows, headers, col_widths,
          header_line, idx, out, raw, ret>>

\* ------------------------------------------------------------------------
\* Characters and Python values
\* ------------------------------------------------------------------------

Digits == <<"0", "1", "2", "3", "4", "5", "6", "7", "8", "9">>

Lower == <<"a", "b", "c", "d", "e", "f", "g", "h", "i", "j", "k", "l", "m",
           "n", "o", "p", "q", "r", "s", "t", "u", "v", "w", "x", "y", "z">>

Upper == <<"A", "B", "C", "D", "E", "F", "G", "H", "I", "J", "K", "L", "M",
           "N", "O", "P", "Q", "R", "S", "T", "U", "V", "W", "X", "Y", "Z">>

Range(q) == {q[n] : n \in DOMAIN q}

\* str.strip() and str.split() with no argument work on whitespace.
Whitespace == {" ", "\t", "\n"}

\* The characters that occur in keys, in increasing order of code point
\* (digits, upper case, "_", lower case), as sorted() compares them.
KeyOrder == Digits \o Upper \o <<"_">> \o Lower

Ord(c) == CHOOSE n \in DOMAIN KeyOrder : KeyOrder[n] = c

DigitChar(n) == Digits[n + 1]

DigitVal(c) == (CHOOSE n \in DOMAIN Digits : Digits[n] = c) - 1

IsDigit(c) == c \in Range(Digits)

PyNone == [t |-> "none", i |-> 0, s |-> <<>>, d |-> <<>>]

PyInt(n) == [t |-> "int", i |-> n, s |-> <<>>, d |-> <<>>]

PyBool(b) == [t |-> "bool", i |-> IF b THEN 1 ELSE 0, s |-> <<>>, d |-> <<>>]

\* A float with at most two decimals, h hundredths.
PyFloat(h) == [t |-> "float", i |-> h, s |-> <<>>, d |-> <<>>]

PyStr(q) == [t |-> "str", i |-> 0, s |-> q, d |-> <<>>]

PyDict(items) == [t |-> "dict", i |-> 0, s |-> <<>>, d |-> items]

PyList(elems) == [t |-> "list", i |-> 0, s |-> <<>>, d |-> elems]

Item(key, val) == [k |-> key, v |-> val]

\* bool(v): the truth value of a Python value.
Truthy(v) ==
    CASE v.t = "none" -> FALSE
      [] v.t \in {"int", "bool", "float"} -> v.i # 0
      [] v.t = "str" -> v.s # <<>>
      [] v.t \in {"dict", "list"} -> v.d # <<>>

RECURSIVE NatStr(_)
NatStr(n) == IF n < 10 THEN <<DigitChar(n)>>
             ELSE NatStr(n \div 10) \o <<DigitChar(n % 10)>>

IntStr(n) == IF n < 0 THEN <<"-">> \o NatStr(-n) ELSE NatStr(n)

Abs(n) == IF n < 0 THEN -n ELSE n

\* repr of a float of h hundredths: at least one decimal, no trailing zero
\* after it.
FloatRepr(h) ==
    LET a == Abs(h)
        frac == a % 100
        decs == IF frac % 10 = 0 THEN <<DigitChar(frac \div 10)>>
                ELSE <<DigitChar(frac \div 10), DigitChar(frac % 10)>>
    IN (IF h < 0 THEN <<"-">> ELSE <<>>) \o NatStr(a \div 100) \o <<".">> \o decs

\* f"{x:.2f}" of a float of h hundredths.
Format2f(h) ==
    LET a == Abs(h)
    IN (IF h < 0 THEN <<"-">> ELSE <<>>) \o NatStr(a \div 100) \o <<".">>
       \o <<DigitChar((a % 100) \div 10), DigitChar(a % 10)>>

\* str(v) of a scalar (a flattened row holds no dict and no list).
Str(v) ==
    CASE v.t = "none" -> <<"N", "o", "n", "e">>
      [] v.t = "bool" -> IF v.i = 1 THEN <<"T", "r", "u", "e">>
                         ELSE <<"F", "a", "l", "s", "e">>
      [] v.t = "int" -> IntStr(v.i)
      [] v.t = "float" -> FloatRepr(v.i)
      [] v.t = "str" -> v.s

RECURSIVE LStrip(_)
LStrip(q) == IF q # <<>> /\ Head(q) \in Whitespace THEN LStrip(Tail(q)) ELSE q

RECURSIVE RStrip(_)
RStrip(q) == IF q # <<>> /\ q[Len(q)] \in Whitespace
             THEN RStrip(SubSeq(q, 1, Len(q) - 1)) ELSE q

Strip(q) == RStrip(LStrip(q))

\* The first token of q (q starts with no whitespace).
RECURSIVE FirstToken(_)
FirstToken(q) == IF q = <<>> \/ Head(q) \in Whitespace THEN <<>>
                 ELSE <<Head(q)>> \o FirstToken(Tail(q))

\* str.split(): the whitespace-separated tokens of q.
RECURSIVE Split(_)
Split(q) ==
    LET rest == LStrip(q)
        tok == FirstToken(rest)
    IN IF rest = <<>> THEN <<>>
       ELSE <<tok>> \o Split(SubSeq(rest, Len(tok) + 1, Len(rest)))

AllDigits(q) == q # <<>> /\ \A n \in DOMAIN q : IsDigit(q[n])

RECURSIVE NatVal(_)
NatVal(q) == IF q = <<>> THEN 0
             ELSE NatVal(SubSeq(q, 1, Len(q) - 1)) * 10 + DigitVal(q[Len(q)])

\* int(v).  [ok, n]: ok is FALSE where int raises.
ToInt(v) ==
    CASE v.t \in {"int", "bool"} -> [ok |-> TRUE, n |-> v.i]
      [] v.t = "float" -> [ok |-> TRUE,
                           n |-> IF v.i < 0 THEN -((-v.i) \div 100) ELSE v.i \div 100]
      [] v.t = "str" ->
            LET q == Strip(v.s)
                signed == q # <<>> /\ Head(q) \in {"-", "+"}
                body == IF signed THEN Tail(q) ELSE q
            IN IF AllDigits(body)
               THEN [ok |-> TRUE,
                     n |-> IF signed /\ Head(q) = "-" THEN -NatVal(body) ELSE NatVal(body)]
               ELSE [ok |-> FALSE, n |-> 0]
      [] OTHER -> [ok |-> FALSE, n |-> 0]

\* float(v), in hundredths, for strings of digits with at most two decimals.
\* [ok, h]: ok is FALSE where float raises.
ToFloat(v) ==
    CASE v.t \in {"int", "bool"} -> [ok |-> TRUE, h |-> v.i * 100]
      [] v.t = "float" -> [ok |-> TRUE, h |-> v.i]
      [] v.t = "str" ->
            LET q == Strip(v.s)
                signed == q # <<>> /\ Head(q) \in {"-", "+"}
                body == IF signed THEN Tail(q) ELSE q
                dots == {n \in DOMAIN body : body[n] = "."}
                dot == IF dots = {} THEN Len(body) + 1 ELSE CHOOSE n \in dots : TRUE
                whole == SubSeq(body, 1, dot - 1)
                decs == SubSeq(body, dot + 1, Len(body))
                mag == NatVal(whole) * 100
                       + (IF Len(decs) = 1 THEN NatVal(decs) * 10 ELSE NatVal(decs))
            IN IF /\ Cardinality(dots) <= 1
                  /\ whole = <<>> \/ AllDigits(whole)
                  /\ decs = <<>> \/ AllDigits(decs)
                  /\ whole # <<>> \/ decs # <<>>
                  /\ Len(decs) <= 2
               THEN [ok |-> TRUE, h |-> IF signed /\ Head(q) = "-" THEN -mag ELSE mag]
               ELSE [ok |-> FALSE, h |-> 0]
      [] OTHER -> [ok |-> FALSE, h |-> 0]

\* ------------------------------------------------------------------------
\* Local time: datetime.fromtimestamp, strftime, strptime, timestamp
\* ------------------------------------------------------------------------

SecondsPerDay == 86400

\* The civil date of day number z (days since 1970-01-01), proleptic
\* Gregorian calendar.
CivilFromDays(z) ==
    LET zz == z + 719468
        era == zz \div 146097
        doe == zz - era * 146097
        yoe == (doe - doe \div 1460 + doe \div 36524 - doe \div 146096) \div 365
        doy == doe - (365 * yoe + yoe \div 4 - yoe \div 100)
        mp == (5 * doy + 2) \div 153
        dd == doy - (153 * mp + 2) \div 5 + 1
        mm == IF mp < 10 THEN mp + 3 ELSE mp - 9
    IN [Y |-> yoe + era * 400 + (IF mm <= 2 THEN 1 ELSE 0), M |-> mm, D |-> dd]

\* The day number of a civil date.
DaysFromCivil(Y, M, D) ==
    LET yy == IF M <= 2 THEN Y - 1 ELSE Y
        era == yy \div 400
        yoe == yy - era * 400
        doy == (153 * (IF M > 2 THEN M - 3 ELSE M + 9) + 2) \div 5 + D - 1
        doe == yoe * 365 + yoe \div 4 - yoe \div 100 + doy
    IN era * 146097 + doe - 719468

IsLeap(Y) == (Y % 4 = 0 /\ Y % 100 # 0) \/ Y % 400 = 0

DaysInMonth(Y, M) ==
    IF M = 2 THEN (IF IsLeap(Y) THEN 29 ELSE 28)
    ELSE IF M \in {4, 6, 9, 11} THEN 30 ELSE 31

Pad2(n) == <<DigitChar(n \div 10), DigitChar(n % 10)>>

Pad4(n) == Pad2(n \div 100) \o Pad2(n % 100)

\* datetime.datetime.fromtimestamp(secs).strftime("%d/%m/%Y %H:%M:%S") at
\* UTC offset offs.
StrfLocal(secs, offs) ==
    LET loc == secs + offs
        date == CivilFromDays(loc \div SecondsPerDay)
        sod == loc % SecondsPerDay
    IN Pad2(date.D) \o <<"/">> \o Pad2(date.M) \o <<"/">> \o Pad4(date.Y) \o <<" ">>
       \o Pad2(sod \div 3600) \o <<":">> \o Pad2((sod % 3600) \div 60) \o <<":">>
       \o Pad2(sod % 60)

\* datetime.datetime.strptime(q, "%H:%M:%S %d/%m/%Y").timestamp() at UTC
\* offset offs, for q with two-digit fields and a four-digit year.
\* [ok, n]: ok is FALSE where strptime raises.
StrpLocal(q, offs) ==
    LET num(a, b) == NatVal(SubSeq(q, a, b))
        shaped == /\ Len(q) = 19
                  /\ \A n \in {1, 2, 4, 5, 7, 8, 10, 11, 13, 14, 16, 17, 18, 19} :
                         IsDigit(q[n])
                  /\ q[3] = ":" /\ q[6] = ":" /\ q[9] = " "
                  /\ q[12] = "/" /\ q[15] = "/"
        hh == num(1, 2)
        mi == num(4, 5)
        ss == num(7, 8)
        dd == num(10, 11)
        mo == num(13, 14)
        yy == num(16, 19)
    IN IF /\ shaped
          /\ hh <= 23 /\ mi <= 59 /\ ss <= 59
          /\ yy >= 1 /\ mo \in 1..12 /\ dd \in 1..DaysInMonth(yy, mo)
       THEN [ok |-> TRUE,
             n |-> DaysFromCivil(yy, mo, dd) * SecondsPerDay
                   + hh * 3600 + mi * 60 + ss - offs]
       ELSE [ok |-> FALSE, n |-> 0]

\* ------------------------------------------------------------------------
\* human_time, flatten_dict, clean_name
\* ------------------------------------------------------------------------

human_time(ts, offs) ==
    IF ts.t = "none" \/ (ts.t \in {"int", "bool", "float"} /\ ts.i = 0)
    THEN <<"-">>
    ELSE IF ts.t \in {"int", "bool"} THEN StrfLocal(ts.i, offs)
    ELSE IF ts.t = "float" THEN StrfLocal(ts.i \div 100, offs)
    ELSE Str(ts)

\* json.dumps of one element of a list (a scalar; a str of characters that
\* need no escape).
JsonScalar(v) ==
    CASE v.t = "none" -> <<"n", "u", "l", "l">>
      [] v.t = "bool" -> IF v.i = 1 THEN <<"t", "r", "u", "e">>
                         ELSE <<"f", "a", "l", "s", "e">>
      [] v.t = "int" -> IntStr(v.i)
      [] v.t = "float" -> FloatRepr(v.i)
      [] v.t = "str" -> <<"\"">> \o v.s \o <<"\"">>

RECURSIVE JsonElems(_)
JsonElems(elems) ==
    IF elems = <<>> THEN <<>>
    ELSE JsonScalar(Head(elems))
         \o (IF Len(elems) > 1 THEN <<",", " ">> ELSE <<>>)
         \o JsonElems(Tail(elems))

\* json.dumps(v, ensure_ascii=False) of a list.
JsonDumps(elems) == <<"[">> \o JsonElems(elems) \o <<"]">>

\* The items list that flatten_dict builds, in order.
RECURSIVE FlattenItems(_, _)
FlattenItems(items, parent_key) ==
    IF items = <<>> THEN <<>>
    ELSE LET k == Head(items).k
             v == Head(items).v
             new_key == IF parent_key # <<>> THEN parent_key \o <<"_">> \o k ELSE k
             these == IF v.t = "dict" THEN FlattenItems(v.d, new_key)
                      ELSE IF v.t = "list" THEN <<Item(new_key, PyStr(JsonDumps(v.d)))>>
                      ELSE <<Item(new_key, v)>>
         IN these \o FlattenItems(Tail(items), parent_key)

\* dict(items): a later item replaces an earlier one of the same key.
RECURSIVE DictOf(_)
DictOf(items) ==
    IF items = <<>> THEN <<>>
    ELSE LET init == DictOf(SubSeq(items, 1, Len(items) - 1))
             last == items[Len(items)]
         IN [key \in DOMAIN init \cup {last.k} |->
                IF key = last.k THEN last.v ELSE init[key]]

flatten_dict(d) == DictOf(FlattenItems(d.d, <<>>))

NameWidth == 35

\* str.ljust(n).
Ljust(q, n) == q \o [m \in 1..(n - Len(q)) |-> " "]

\* The characters the pattern [^a-zA-Z0-9 _\.-] leaves in place.
NameChars == Range(Lower) \cup Range(Upper) \cup Range(Digits) \cup {" ", "_", ".", "-"}

ReSubName(q) == SelectSeq(q, LAMBDA c : c \in NameChars)

\* clean_name without the cut to 35 characters.
clean_name_uncut(name) ==
    IF name = <<>> THEN Ljust(<<>>, NameWidth)
    ELSE Ljust(Strip(ReSubName(name)), NameWidth)

clean_name(name) ==
    IF name = <<>> THEN Ljust(<<>>, NameWidth)
    ELSE LET stripped == Strip(ReSubName(name))
             cut == IF Len(stripped) > NameWidth THEN SubSeq(stripped, 1, NameWidth)
                    ELSE stripped
         IN Ljust(cut, NameWidth)

\* ------------------------------------------------------------------------
\* normalize_node
\* ------------------------------------------------------------------------

\* The keys the code names.
KHash == <<"#">>

KLastHeard == <<"l", "a", "s", "t", "H", "e", "a", "r", "d">>

KLastHeardHuman == <<"l", "a", "s", "t", "H", "e", "a", "r", "d", "_", "h", "u", "m", "a", "n">>

KUser == <<"u", "s", "e", "r">>

KLongName == <<"l", "o", "n", "g", "N", "a", "m", "e">>

KShortName == <<"s", "h", "o", "r", "t", "N", "a", "m", "e">>

KName == <<"n", "a", "m", "e">>

KHopsAway == <<"h", "o", "p", "s", "A", "w", "a", "y">>

KViaHop == <<"v", "i", "a", "H", "o", "p">>

KSnr == <<"s", "n", "r">>

KUserId == <<"u", "s", "e", "r", "_", "i", "d">>

KUserHwModel == <<"u", "s", "e", "r", "_", "h", "w", "M", "o", "d", "e", "l">>

KPositionLatitude == <<"p", "o", "s", "i", "t", "i", "o", "n", "_", "l", "a", "t", "i", "t", "u", "d", "e">>

KPositionLongitude == <<"p", "o", "s", "i", "t", "i", "o", "n", "_", "l", "o", "n", "g", "i", "t", "u", "d", "e">>

\* dict.get(key, default) of a flattened row.
Get(f, key, default) == IF key \in DOMAIN f THEN f[key] ELSE default

\* f[key] = val.
Put(f, key, val) == [x \in DOMAIN f \cup {key} |-> IF x = key THEN val ELSE f[x]]

\* Lines 73-76.  [ok, flat]: ok is FALSE where tmp[1] raises IndexError.
OverlayLastHeard(top, flat, offs) ==
    IF KLastHeard \in DOMAIN top
    THEN LET tmp == Split(human_time(top[KLastHeard], offs))
         IN IF Len(tmp) >= 2
            THEN [ok |-> TRUE,
                  flat |-> Put(flat, KLastHeardHuman, PyStr(tmp[2] \o <<" ">> \o tmp[1]))]
            ELSE [ok |-> FALSE, flat |-> flat]
    ELSE [ok |-> TRUE, flat |-> flat]

\* Lines 80-84: longName or shortName or "".  getattr on a value that is
\* no dict finds neither attribute.
UserName(u) ==
    IF u.t = "dict"
    THEN LET ud == DictOf(u.d)
             long == Get(ud, KLongName, PyNone)
             short == Get(ud, KShortName, PyNone)
         IN IF Truthy(long) THEN long
            ELSE IF Truthy(short) THEN short ELSE PyStr(<<>>)
    ELSE PyStr(<<>>)

\* Lines 79-87.  ok is FALSE where re.sub raises TypeError on a name that
\* is no string.
OverlayName(top, flat) ==
    IF KUser \in DOMAIN top
    THEN LET name == UserName(top[KUser])
         IN IF Truthy(name) /\ name.t # "str"
            THEN [ok |-> FALSE, flat |-> flat]
            ELSE [ok |-> TRUE,
                  flat |-> Put(flat, KName,
                               PyStr(clean_name(name.s)))]
    ELSE [ok |-> TRUE, flat |-> Put(flat, KName, PyStr(Ljust(<<>>, NameWidth)))]

\* Lines 90-95.
OverlayViaHop(flat) ==
    LET hops == Get(flat, KHopsAway, PyNone)
        hops_int == IF hops.t # "none" /\ ToInt(hops).ok THEN ToInt(hops).n ELSE 0
    IN Put(flat, KViaHop, PyBool(hops_int > 0))

\* Lines 98-102.
OverlaySnr(flat) ==
    IF KSnr \in DOMAIN flat
    THEN Put(flat, KSnr,
             IF ToFloat(flat[KSnr]).ok THEN PyStr(Format2f(ToFloat(flat[KSnr]).h))
             ELSE PyStr(<<>>))
    ELSE flat

\* normalize_node of a node that is a dict (dict(node) copies it).
\* [ok, flat]: ok is FALSE where the call raises.
normalize_node(node, offs) ==
    LET top == DictOf(node.d)
        a == OverlayLastHeard(top, flatten_dict(node), offs)
        b == OverlayName(top, a.flat)
    IN IF a.ok /\ b.ok
       THEN [ok |-> TRUE, flat |-> OverlaySnr(OverlayViaHop(b.flat))]
       ELSE [ok |-> FALSE, flat |-> <<>>]

\* ------------------------------------------------------------------------
\* print_table: sort keys, columns, widths, lines
\* ------------------------------------------------------------------------

\* hop_key with a hopsAway that does not parse put last.
hop_key_unparsed_last(r) ==
    LET n == ToInt(Get(r, KHopsAway, PyInt(0)))
    IN IF n.ok THEN n.n ELSE 99

\* Lines 117-121.
hop_key(r) ==
    LET n == ToInt(Get(r, KHopsAway, PyInt(0)))
    IN IF n.ok THEN n.n ELSE 0

\* Lines 125-135.  val.strip() raises on a value that is no string.
ts_key(r, offs) ==
    LET val == Get(r, KLastHeardHuman, PyStr(<<"-">>))
    IN IF val.t # "str" THEN 0
       ELSE IF val.s = <<"-">> \/ Strip(val.s) = <<>> THEN 0
       ELSE IF StrpLocal(val.s, offs).ok THEN StrpLocal(val.s, offs).n ELSE 0

\* The key rows.sort is given: hop_key, or ts_key with reverse=True.
SortKey(r, byHop, offs) == IF byHop THEN hop_key(r) ELSE ts_key(r, offs)

\* StaysAbove without reverse=True.
StaysAboveAscending(a, b, byHop) == a <= b

\* Whether a row of key a stays above a later row of key b: list.sort is
\* stable, also with reverse=True.
StaysAbove(a, b, byHop) == IF byHop THEN a <= b ELSE a >= b

\* rs with r, which follows every row of rs in the input, put in its place.
SortInsert(rs, r, byHop, offs) ==
    LET above(x) == StaysAbove(SortKey(x, byHop, offs), SortKey(r, byHop, offs), byHop)
    IN SelectSeq(rs, above) \o <<r>> \o SelectSeq(rs, LAMBDA x : ~above(x))

\* Lines 116-136: rows.sort(key=...).
RECURSIVE SortRows(_, _, _)
SortRows(rs, byHop, offs) ==
    IF rs = <<>> THEN <<>>
    ELSE SortInsert(SortRows(SubSeq(rs, 1, Len(rs) - 1), byHop, offs),
                    rs[Len(rs)], byHop, offs)

\* a < b for strings, as sorted() compares them.
RECURSIVE LexLess(_, _)
LexLess(a, b) ==
    IF b = <<>> THEN FALSE
    ELSE IF a = <<>> THEN TRUE
    ELSE IF Head(a) = Head(b) THEN LexLess(Tail(a), Tail(b))
    ELSE Ord(Head(a)) < Ord(Head(b))

\* sorted(S) of a set of strings.
RECURSIVE SortedKeys(_)
SortedKeys(S) ==
    IF S = {} THEN <<>>
    ELSE LET least == CHOOSE a \in S : \A b \in S \ {a} : LexLess(a, b)
         IN <<least>> \o SortedKeys(S \ {least})

\* Lines 139-149.
CompactHeaders ==
    <<KHash, KUserId, KUserHwModel, KName, KHopsAway, KSnr,
      KPositionLatitude, KPositionLongitude, KLastHeardHuman>>

\* Lines 138-151.
SelectHeaders(isCompact, seen) ==
    IF isCompact THEN CompactHeaders ELSE <<KHash>> \o SortedKeys(seen)

IndexWidth == 5

NameColWidth == 35

ColPadding == 2

Max(a, b) == IF a >= b THEN a ELSE b

\* max(gen, default=0) over the rows.
RECURSIVE MaxLen(_, _)
MaxLen(rs, h) ==
    IF rs = <<>> THEN 0
    ELSE Max(Len(Str(Get(Head(rs), h, PyStr(<<>>)))), MaxLen(Tail(rs), h))

\* ColWidth without the two characters of padding.
ColWidthUnpadded(h, rs) ==
    IF h = KHash THEN IndexWidth
    ELSE IF h = KName THEN NameColWidth
    ELSE Max(MaxLen(rs, h), Len(h))

\* Lines 156-163.
ColWidth(h, rs) ==
    IF h = KHash THEN IndexWidth
    ELSE IF h = KName THEN NameColWidth
    ELSE Max(MaxLen(rs, h), Len(h)) + ColPadding

\* Lines 154-163.
ColWidths(hs, rs) == [h \in Range(hs) |-> ColWidth(h, rs)]

\* "".join of the parts.
RECURSIVE Join(_)
Join(parts) == IF parts = <<>> THEN <<>> ELSE Head(parts) \o Join(Tail(parts))

\* Line 167.
HeaderLine(hs, widths) == Join([n \in DOMAIN hs |-> Ljust(hs[n], widths[hs[n]])])

\* Line 169.
SeparatorLine(line) == [n \in 1..Len(line) |-> "="]

\* f"{n:03d}".
Format03d(n) ==
    LET digits == NatStr(n)
    IN [m \in 1..(3 - Len(digits)) |-> "0"] \o digits

\* Lines 175-183: the text of one cell, before it is padded.
CellText(h, r, n) ==
    IF h = KHash THEN Format03d(n)
    ELSE IF h = KSnr /\ Get(r, h, PyStr(<<>>)) # PyStr(<<>>)
         THEN Str(r[h]) \o <<" ", " ">>
    ELSE Str(Get(r, h, PyStr(<<>>)))

\* Lines 173-185.
RowLine(r, n, hs, widths) ==
    Join([m \in DOMAIN hs |-> Ljust(CellText(hs[m], r, n), widths[hs[m]])])

\* Highlighted without the test of snr.
HighlightedHopOnly(r) == Str(Get(r, KHopsAway, PyStr(<<"0">>))) = <<"0">>

\* Line 188.
Highlighted(r) ==
    /\ Str(Get(r, KHopsAway, PyStr(<<"0">>))) = <<"0">>
    /\ Get(r, KSnr, PyStr(<<>>)) # PyStr(<<>>)

\* "\033[42m\033[97m" and "\033[0m"; "ESC" is the one character \033.
ColorOn == <<"ESC", "[", "4", "2", "m", "ESC", "[", "9", "7", "m">>

ColorOff == <<"ESC", "[", "0", "m">>

\* Lines 188-191: the line print is given for row r.
PrintedLine(r, n, hs, widths) ==
    IF Highlighted(r) THEN ColorOn \o RowLine(r, n, hs, widths) \o ColorOff
    ELSE RowLine(r, n, hs, widths)

\* ------------------------------------------------------------------------
\* Inputs
\* ------------------------------------------------------------------------

\* The longest snapshot.
MaxNodes == 3

\* The longest run of characters put before and after the body of a name.
MaxAffix == 1

\* The UTC offsets of the local time zone.
Offsets == {-18000, 3600}

KId == <<"i", "d">>

KHwModel == <<"h", "w", "M", "o", "d", "e", "l">>

KPosition == <<"p", "o", "s", "i", "t", "i", "o", "n">>

KLatitude == <<"l", "a", "t", "i", "t", "u", "d", "e">>

KLongitude == <<"l", "o", "n", "g", "i", "t", "u", "d", "e">>

KChannels == <<"c", "h", "a", "n", "n", "e", "l", "s">>

\* Heard directly, with a signal report, a position and a long name that
\* clean_name has to clean.
NodeAlice ==
    PyDict(<<Item(KLastHeard, PyInt(1700000000)),
             Item(KHopsAway, PyInt(0)),
             Item(KSnr, PyFloat(568)),
             Item(KUser, PyDict(<<Item(KId, PyStr(<<"!", "a", "1">>)),
                                  Item(KLongName, PyStr(<<"A", "l", "i", "c", "e", " ", "S", "t", "a", "t", "i", "o", "n", "!", "!">>)),
                                  Item(KHwModel, PyStr(<<"T", "B", "E", "A", "M">>))>>)),
             Item(KPosition, PyDict(<<Item(KLatitude, PyFloat(4350)),
                                      Item(KLongitude, PyFloat(1125))>>))>>)

\* Never heard: lastHeard is 0.
NodeBob ==
    PyDict(<<Item(KLastHeard, PyInt(0)),
             Item(KHopsAway, PyInt(2)),
             Item(KUser, PyDict(<<Item(KShortName, PyStr(<<"B", "O", "B">>))>>))>>)

\* Heard an hour after Alice, one hop away, with a list-valued field.
NodeCarol ==
    PyDict(<<Item(KLastHeard, PyInt(1700003600)),
             Item(KHopsAway, PyInt(1)),
             Item(KSnr, PyFloat(-750)),
             Item(KUser, PyDict(<<Item(KId, PyStr(<<"!", "c", "3">>)),
                                  Item(KShortName, PyStr(<<"C", "R", "L">>))>>)),
             Item(KChannels, PyList(<<PyInt(0), PyInt(12)>>))>>)

\* No lastHeard and no user; a raw lastHeard_human of "-", and hopsAway and
\* snr that do not parse.
NodeDave ==
    PyDict(<<Item(KLastHeardHuman, PyStr(<<"-">>)),
             Item(KHopsAway, PyStr(<<"x">>)),
             Item(KSnr, PyStr(<<"b", "a", "d">>))>>)

\* Heard long ago; no hopsAway, an integer snr, a user that is no dict.
NodeEve ==
    PyDict(<<Item(KLastHeard, PyInt(86399)),
             Item(KSnr, PyInt(3)),
             Item(KUser, PyInt(5))>>)

\* Heard when Alice was; hopsAway 0 but an snr of None; a long name of more
\* than 35 characters.
NodeFrank ==
    PyDict(<<Item(KLastHeard, PyInt(1700000000)),
             Item(KHopsAway, PyInt(0)),
             Item(KSnr, PyNone),
             Item(KUser, PyDict(<<Item(KLongName,
                 PyStr(<<"F", "r", "a", "n", "k", " ", "r", "e", "l", "a", "y", " ", "s", "t", "a", "t", "i", "o", "n", " ", "r", "o", "o", "f", "-", "t", "o", "p", ".", "n", "o", "r", "t", "h", " ", "0", "0", "4", "2">>))>>))>>)

NodePool == {NodeAlice, NodeBob, NodeCarol, NodeDave, NodeEve, NodeFrank}

\* The snapshots: up to MaxNodes different nodes, in any order.
Snapshots ==
    UNION {{q \in [1..n -> NodePool] : \A a, b \in 1..n : a # b => q[a] # q[b]}
           : n \in 0..MaxNodes}

\* ------------------------------------------------------------------------
\* print_table, one step at a time
\* ------------------------------------------------------------------------

Init ==
    /\ nodes \in Snapshots
    /\ compact \in BOOLEAN
    /\ sort_hop \in BOOLEAN
    /\ tz \in Offsets
    /\ pc = "normalize"
    /\ rows = <<>>
    /\ headers = {}
    /\ col_widths = <<>>
    /\ header_line = <<>>
    /\ idx = 0
    /\ out = <<>>
    /\ raw = PyNone
    /\ ret = [st |-> "none", flat |-> <<>>]

\* NormalizeNext that prints each row as soon as it is normalized.
NormalizeNextStreaming ==
    /\ pc = "normalize"
    /\ Len(rows) < Len(nodes)
    /\ LET flat == normalize_node(nodes[Len(rows) + 1], tz)
       IN IF flat.ok
          THEN /\ rows' = Append(rows, flat.flat)
               /\ headers' = headers \cup DOMAIN flat.flat
               /\ out' = Append(out, PrintedLine(flat.flat, Len(rows) + 1, CompactHeaders,
                                                 ColWidths(CompactHeaders, <<flat.flat>>)))
               /\ pc' = pc
          ELSE /\ pc' = "raised"
               /\ UNCHANGED <<rows, headers, out>>
    /\ UNCHANGED <<nodes, compact, sort_hop, tz, col_widths, header_line, idx, raw, ret>>

\* Lines 111-114, one turn of the loop.  An exception of normalize_node
\* leaves print_table.
NormalizeNext ==
    /\ pc = "normalize"
    /\ Len(rows) < Len(nodes)
    /\ LET flat == normalize_node(nodes[Len(rows) + 1], tz)
       IN IF flat.ok
          THEN /\ rows' = Append(rows, flat.flat)
               /\ headers' = headers \cup DOMAIN flat.flat
               /\ pc' = pc
          ELSE /\ pc' = "raised"
               /\ UNCHANGED <<rows, headers>>
    /\ UNCHANGED <<nodes, compact, sort_hop, tz, col_widths, header_line, idx, out,
                   raw, ret>>

\* Lines 116-136, once the loop has ended.
SortStep ==
    /\ pc = "normalize"
    /\ Len(rows) = Len(nodes)
    /\ rows' = SortRows(rows, sort_hop, tz)
    /\ pc' = "select"
    /\ UNCHANGED <<nodes, compact, sort_hop, tz, headers, col_widths, header_line,
                   idx, out, raw, ret>>

\* Lines 138-151.
SelectStep ==
    /\ pc = "select"
    /\ headers' = SelectHeaders(compact, headers)
    /\ pc' = "widths"
    /\ UNCHANGED <<nodes, compact, sort_hop, tz, rows, col_widths, header_line,
                   idx, out, raw, ret>>

\* Lines 154-163.
WidthStep ==
    /\ pc = "widths"
    /\ col_widths' = ColWidths(headers, rows)
    /\ pc' = "blank"
    /\ UNCHANGED <<nodes, compact, sort_hop, tz, rows, headers, header_line,
                   idx, out, raw, ret>>

\* PrintBlank that prints nothing.
PrintBlankOmitted ==
    /\ pc = "blank"
    /\ pc' = "header"
    /\ UNCHANGED <<nodes, compact, sort_hop, tz, rows, headers, col_widths,
                   header_line, idx, out, raw, ret>>

\* Line 166.
PrintBlank ==
    /\ pc = "blank"
    /\ out' = Append(out, <<>>)
    /\ pc' = "header"
    /\ UNCHANGED <<nodes, compact, sort_hop, tz, rows, headers, col_widths,
                   header_line, idx, raw, ret>>

\* Lines 167-168.
PrintHeader ==
    /\ pc = "header"
    /\ header_line' = HeaderLine(headers, col_widths)
    /\ out' = Append(out, header_line')
    /\ pc' = "separator"
    /\ UNCHANGED <<nodes, compact, sort_hop, tz, rows, headers, col_widths, idx,
                   raw, ret>>

\* Line 169.
PrintSeparator ==
    /\ pc = "separator"
    /\ out' = Append(out, SeparatorLine(header_line))
    /\ pc' = "rows"
    /\ UNCHANGED <<nodes, compact, sort_hop, tz, rows, headers, col_widths,
                   header_line, idx, raw, ret>>

\* Lines 172-191, one turn of the loop.
PrintRow ==
    /\ pc = "rows"
    /\ idx < Len(rows)
    /\ idx' = idx + 1
    /\ out' = Append(out, PrintedLine(rows[idx'], idx', headers, col_widths))
    /\ UNCHANGED <<nodes, compact, sort_hop, tz, pc, rows, headers, col_widths,
                   header_line, raw, ret>>

\* The loop of lines 172-191 has ended: print_table returns.
Return ==
    /\ pc = "rows"
    /\ idx = Len(rows)
    /\ pc' = "done"
    /\ UNCHANGED <<nodes, compact, sort_hop, tz, rows, headers, col_widths,
                   header_line, idx, out, raw, ret>>

Next ==
    \/ NormalizeNext
    \/ SortStep
    \/ SelectStep
    \/ WidthStep
    \/ PrintBlank
    \/ PrintHeader
    \/ PrintSeparator
    \/ PrintRow
    \/ Return

Spec == Init /\ [][Next]_vars

\* ------------------------------------------------------------------------
\* normalize_node, one call
\* ------------------------------------------------------------------------

\* A letter, a space, a character the pattern keeps and two it removes.
NameAlphabet == {"b", " ", ".", "!", "@"}

Affixes == UNION {[1..n -> NameAlphabet] : n \in 0..MaxAffix}

\* The lengths of the body of a name: none, short, and around NameWidth.
BodyLens == {0, 1, NameWidth - 1, NameWidth, NameWidth + 1}

NameInputs == {p \o [m \in 1..n |-> "a"] \o s : p \in Affixes, s \in Affixes, n \in BodyLens}

\* Records of a user with a long name.
NameRecords ==
    {PyDict(<<Item(KUser, PyDict(<<Item(KLongName, PyStr(n))>>))>>) : n \in NameInputs}

\* What a record may hold for each field the code reads; <<>> is the field
\* left out.
LastHeardItems ==
    {<<>>} \cup
    {<<Item(KLastHeard, v)>> :
        v \in {PyNone, PyInt(0), PyInt(86399), PyInt(1700000000), PyFloat(150),
               PyStr(<<"a", "b", "c">>), PyStr(<<"a", " ", "b">>)}}

LastHeardHumanItems ==
    {<<>>} \cup
    {<<Item(KLastHeardHuman, v)>> :
        v \in {PyStr(<<"-">>), PyStr(<<"1", "2", ":", "0", "0", ":", "0", "0", " ", "0", "1", "/", "0", "1", "/", "2", "0", "2", "4">>)}}

UserItems ==
    {<<>>} \cup
    {<<Item(KUser, v)>> :
        v \in {PyDict(<<Item(KLongName, PyStr(<<"A", "l", "!">>))>>),
               PyDict(<<Item(KLongName, PyStr(<<>>)), Item(KShortName, PyStr(<<"B", "O", "B">>))>>),
               PyDict(<<Item(KLongName, PyInt(7))>>),
               PyDict(<<>>),
               PyInt(5)}}

HopsAwayItems ==
    {<<>>} \cup
    {<<Item(KHopsAway, v)>> : v \in {PyNone, PyInt(0), PyInt(2), PyStr(<<"x">>)}}

SnrItems ==
    {<<>>} \cup
    {<<Item(KSnr, v)>> :
        v \in {PyNone, PyFloat(568), PyInt(3), PyStr(<<"b", "a", "d">>), PyStr(<<"7", ".", "5">>)}}

\* Raw keys named like the derived ones.
DerivedNameItems ==
    {<<>>, <<Item(KName, PyStr(<<"r", "a", "w">>)), Item(KViaHop, PyStr(<<"r", "a", "w">>))>>}

FieldRecords ==
    {PyDict(a \o b \o c \o d \o e \o f) :
        a \in LastHeardItems, b \in LastHeardHumanItems, c \in UserItems,
        d \in HopsAwayItems, e \in SnrItems, f \in DerivedNameItems}

InitNorm ==
    /\ raw \in NameRecords \cup FieldRecords
    /\ tz \in Offsets
    /\ ret = [st |-> "none", flat |-> <<>>]
    /\ nodes = <<>>
    /\ compact = TRUE
    /\ sort_hop = FALSE
    /\ pc = "idle"
    /\ rows = <<>>
    /\ headers = {}
    /\ col_widths = <<>>
    /\ header_line = <<>>
    /\ idx = 0
    /\ out = <<>>

\* Lines 50-104: one call of normalize_node.
CallNormalize ==
    /\ ret.st = "none"
    /\ ret' = LET r == normalize_node(raw, tz)
              IN [st |-> IF r.ok THEN "returned" ELSE "raised", flat |-> r.flat]
    /\ UNCHANGED <<nodes, compact, sort_hop, tz, pc, rows, headers, col_widths,
                   header_line, idx, out, raw>>

NextNorm == CallNormalize

SpecNorm == InitNorm /\ [][NextNorm]_vars

\* ------------------------------------------------------------------------
\* Properties
\* ------------------------------------------------------------------------

\* The rows normalize_node gives for the snapshot, in snapshot order.
NormRows == [n \in DOMAIN nodes |-> normalize_node(nodes[n], tz).flat]

\* The place in the snapshot of the node that row r comes from.
PosIn(r) == CHOOSE n \in DOMAIN nodes : NormRows[n] = r

\* The timestamp that reading lastHeard_human as "HH:MM:SS DD/MM/YYYY"
\* gives; zero where there is nothing to read or it does not read.
ParsedStamp(r) ==
    IF KLastHeardHuman \in DOMAIN r /\ r[KLastHeardHuman].t = "str"
       /\ StrpLocal(r[KLastHeardHuman].s, tz).ok
    THEN StrpLocal(r[KLastHeardHuman].s, tz).n
    ELSE 0

\* The integer that hopsAway reads as; zero where it is missing or does not
\* read as one.
HopsOf(r) ==
    IF KHopsAway \in DOMAIN r /\ ToInt(r[KHopsAway]).ok THEN ToInt(r[KHopsAway]).n
    ELSE 0

\* The line is framed by the two colour sequences.
Wrapped(line) ==
    /\ Len(line) >= Len(ColorOn) + Len(ColorOff)
    /\ SubSeq(line, 1, Len(ColorOn)) = ColorOn
    /\ SubSeq(line, Len(line) - Len(ColorOff) + 1, Len(line)) = ColorOff

\* The line holds no escape character at all.
Plain(line) == \A n \in DOMAIN line : line[n] # "ESC"

\* The line without the colour sequences.
Unstyled(line) ==
    IF Wrapped(line) THEN SubSeq(line, Len(ColorOn) + 1, Len(line) - Len(ColorOff))
    ELSE line

\* The data line of the row displayed at place n (after the blank line, the
\* header and the separator).
DataLine(n) == out[3 + n]

\* The rows are a rearrangement of the normalized records.
RowsArePermutation ==
    /\ Len(rows) = Len(nodes)
    /\ \A n \in DOMAIN nodes :
          Cardinality({m \in DOMAIN rows : rows[m] = NormRows[n]})
              = Cardinality({m \in DOMAIN nodes : NormRows[m] = NormRows[n]})

\* C1: normalize_node returns a row for every record, so print_table gets
\* one row for each record of the snapshot and no record ends the batch.
C1_NoRecordAbortsTheBatch ==
    /\ pc # "raised"
    /\ pc \notin {"normalize", "raised"} => Len(rows) = Len(nodes)

\* C2: every row that normalize_node returns has the key lastHeard_human;
\* it is "-" when lastHeard is 0 or absent, and the local time of lastHeard
\* as "HH:MM:SS DD/MM/YYYY" when lastHeard is a number that is not 0.
C2_LastHeardHumanAlways ==
    ret.st = "returned" =>
        LET top == DictOf(raw.d)
            absent == KLastHeard \notin DOMAIN top
            lh == Get(top, KLastHeard, PyNone)
            human == StrfLocal(IF lh.t = "float" THEN lh.i \div 100 ELSE lh.i, tz)
        IN /\ KLastHeardHuman \in DOMAIN ret.flat
           /\ absent \/ lh.t = "none" \/ (lh.t \in {"int", "float"} /\ lh.i = 0)
                 => ret.flat[KLastHeardHuman] = PyStr(<<"-">>)
           /\ ~absent /\ lh.t \in {"int", "float"} /\ lh.i # 0
                 => ret.flat[KLastHeardHuman]
                        = PyStr(SubSeq(human, 12, 19) \o <<" ">> \o SubSeq(human, 1, 10))

\* C3, as claimed: a call of print_table has written, when it returns,
\* N + 2 lines for a snapshot of N records, the header first.
C3_HeaderFirstOfNPlus2 ==
    pc = "done" =>
        /\ Len(out) = Len(nodes) + 2
        /\ Head(out[1]) = "#"

\* C3, amended: a call of print_table that returns has written N + 3 lines
\* for a snapshot of N records: an empty line, the header, a separator of
\* "=" as long as the header, and one data line per record, numbered in
\* order; a call that normalize_node ends with an exception has written
\* nothing.
C3_BlankHeaderSeparatorRows ==
    /\ pc = "raised" => out = <<>>
    /\ pc = "done" =>
          /\ Len(out) = Len(nodes) + 3
          /\ out[1] = <<>>
          /\ out[2] = header_line
          /\ Head(out[2]) = "#"
          /\ Len(out[3]) = Len(out[2])
          /\ \A n \in DOMAIN out[3] : out[3][n] = "="
          /\ \A n \in 1..Len(nodes) :
                SubSeq(Unstyled(DataLine(n)), 1, 3) = Format03d(n)

C3_Witness ==
    /\ pc = "done"
    /\ Len(nodes) = 2
    /\ Len(out) = 5

\* C4: in recency mode the rows are displayed by descending parsed
\* timestamp: a row with a greater timestamp is above one with a smaller;
\* a row whose lastHeard_human is "-", blank, absent or unreadable counts
\* as timestamp zero and is below every row with a positive timestamp; a
\* row made from a positive lastHeard has that lastHeard as its timestamp.
C4_RecencyOrder ==
    (~sort_hop /\ pc = "done") =>
        /\ RowsArePermutation
        /\ \A a, b \in DOMAIN rows :
              ParsedStamp(rows[a]) > ParsedStamp(rows[b]) => a < b
        /\ \A a \in DOMAIN rows :
              LET r == rows[a]
                  val == Get(r, KLastHeardHuman, PyStr(<<"-">>))
              IN /\ (val.t = "str" /\ (val.s = <<"-">> \/ Strip(val.s) = <<>>))
                        => /\ ParsedStamp(r) = 0
                           /\ \A b \in DOMAIN rows : ParsedStamp(rows[b]) > 0 => b < a
                 /\ (KLastHeard \in DOMAIN r /\ r[KLastHeard].t = "int"
                     /\ r[KLastHeard].i > 0)
                        => ParsedStamp(r) = r[KLastHeard].i
                 /\ Unstyled(DataLine(a)) = RowLine(r, a, headers, col_widths)

C4_Witness ==
    /\ pc = "done"
    /\ ~sort_hop
    /\ Len(rows) = 3
    /\ KLastHeard \notin DOMAIN NormRows[1]
    /\ ParsedStamp(NormRows[2]) < ParsedStamp(NormRows[3])
    /\ ParsedStamp(rows[1]) > ParsedStamp(rows[2])
    /\ ParsedStamp(rows[2]) > 0
    /\ ParsedStamp(rows[3]) = 0

\* C5: in hop mode the rows are displayed by non-decreasing hopsAway, a
\* missing or non-numeric hopsAway counting as 0; the timestamp plays no
\* part: rows of equal hopsAway stay in snapshot order.
C5_HopOrder ==
    (sort_hop /\ pc = "done") =>
        /\ RowsArePermutation
        /\ \A a, b \in DOMAIN rows :
              a < b =>
                 \/ HopsOf(rows[a]) < HopsOf(rows[b])
                 \/ /\ HopsOf(rows[a]) = HopsOf(rows[b])
                    /\ PosIn(rows[a]) < PosIn(rows[b])
        /\ \A a \in DOMAIN rows :
              Unstyled(DataLine(a)) = RowLine(rows[a], a, headers, col_widths)

C5_Witness ==
    /\ pc = "done"
    /\ sort_hop
    /\ Len(rows) = 3
    /\ HopsOf(rows[1]) = 0 /\ KHopsAway \in DOMAIN rows[1] /\ ~ToInt(rows[1][KHopsAway]).ok
    /\ HopsOf(rows[2]) = 0
    /\ HopsOf(rows[3]) = 1
    /\ ParsedStamp(rows[3]) > ParsedStamp(rows[2])
    /\ ParsedStamp(rows[2]) > ParsedStamp(rows[1])

\* C6: a data line is framed by ESC[42m ESC[97m and ESC[0m exactly when the
\* row's hopsAway, as a string and "0" when absent, is "0" and the row's
\* snr is not empty; any other line holds no escape sequence; a row of a
\* record whose snr is absent or does not parse is not framed.
C6_HighlightRule ==
    \A n \in 1..idx :
        LET r == rows[n]
            hops == IF KHopsAway \in DOMAIN r THEN Str(r[KHopsAway]) ELSE <<"0">>
            snr == IF KSnr \in DOMAIN r THEN r[KSnr] ELSE PyStr(<<>>)
            node == DictOf(nodes[PosIn(r)].d)
        IN /\ Wrapped(DataLine(n)) <=> (hops = <<"0">> /\ snr # PyStr(<<>>))
           /\ Wrapped(DataLine(n)) \/ Plain(DataLine(n))
           /\ hops = <<"1">> => Plain(DataLine(n))
           /\ (KSnr \notin DOMAIN node \/ ~ToFloat(node[KSnr]).ok) => Plain(DataLine(n))

C6_Witness ==
    /\ pc = "done"
    /\ \E a, b, c \in DOMAIN rows :
          /\ Wrapped(DataLine(a))
          /\ Plain(DataLine(b)) /\ Get(rows[b], KHopsAway, PyNone) = PyInt(0)
          /\ Plain(DataLine(c)) /\ Get(rows[c], KHopsAway, PyNone) = PyInt(1)
                /\ Get(rows[c], KSnr, PyStr(<<>>)) # PyStr(<<>>)

\* C7, as claimed: the name of every row is 35 characters long; where
\* clean_name made it (the record has a user), it holds only ASCII letters,
\* digits, space, "_", "-" and ".", and starts with no whitespace.
C7_NameNoLeadingSpace ==
    ret.st = "returned" =>
        LET name == ret.flat[KName].s
        IN /\ Len(name) = 35
           /\ KUser \in DOMAIN DictOf(raw.d) =>
                 /\ \A n \in DOMAIN name : name[n] \in NameChars
                 /\ Head(name) \notin Whitespace

\* C7, amended: the name of every row is 35 characters long, holds only
\* ASCII letters, digits, space, "_", "-" and ".", and starts with no
\* whitespace unless it is 35 spaces (an empty name, or one that nothing is
\* left of).
C7_NameFixedWidth ==
    ret.st = "returned" =>
        LET name == ret.flat[KName].s
        IN /\ ret.flat[KName].t = "str"
           /\ Len(name) = 35
           /\ \A n \in DOMAIN name :
                 \/ name[n] \in Range(Lower) \cup Range(Upper) \cup Range(Digits)
                 \/ name[n] \in {" ", "_", "-", "."}
           /\ Head(name) \notin Whitespace \/ \A n \in DOMAIN name : name[n] = " "

C7_Witness ==
    /\ ret.st = "returned"
    /\ raw \in NameRecords
    /\ LET given == DictOf(DictOf(raw.d)[KUser].d)[KLongName].s
       IN /\ Len(given) > 35
          /\ Head(given) = " "
          /\ given[Len(given)] = "!"
    /\ ret.flat[KName].s[35] = "a"

\* C8: in the row that normalize_node returns, a derived key that the raw
\* record also gives by flattening holds the derived value, not the raw
\* one: lastHeard_human the placeholder or the time of lastHeard, name the
\* cleaned 35-character name, viaHop a boolean, snr the two-decimal text or
\* the empty string.
C8_DerivedOverwritesRaw ==
    ret.st = "returned" =>
        LET top == DictOf(raw.d)
            was == flatten_dict(raw)
            tokens == Split(human_time(Get(top, KLastHeard, PyNone), tz))
        IN /\ KLastHeardHuman \in DOMAIN was =>
                 ret.flat[KLastHeardHuman]
                     = IF Len(tokens) >= 2 THEN PyStr(tokens[2] \o <<" ">> \o tokens[1])
                       ELSE PyStr(<<"-">>)
           /\ KName \in DOMAIN was =>
                 ret.flat[KName].t = "str" /\ Len(ret.flat[KName].s) = 35
           /\ KViaHop \in DOMAIN was => ret.flat[KViaHop].t = "bool"
           /\ KSnr \in DOMAIN was =>
                 ret.flat[KSnr] \in {PyStr(<<>>), PyStr(Format2f(ToFloat(was[KSnr]).h))}

\* C9: nothing is written before every record is normalized, the rows are
\* sorted and every column has its width; a call that an exception ends has
\* written nothing.
C9_NothingWrittenEarly ==
    /\ pc = "raised" => out = <<>>
    /\ out # <<>> =>
          /\ pc \in {"header", "separator", "rows", "done"}
          /\ RowsArePermutation
          /\ \A a, b \in DOMAIN rows :
                a < b => IF sort_hop THEN HopsOf(rows[a]) <= HopsOf(rows[b])
                         ELSE ParsedStamp(rows[a]) >= ParsedStamp(rows[b])
          /\ DOMAIN col_widths = Range(headers)
          /\ \A h \in DOMAIN col_widths : col_widths[h] >= Len(h)

C9_Witness ==
    /\ pc = "raised"
    /\ Len(rows) = 2
    /\ out = <<>>

\* C10: every data line, the colour sequences aside, is as long as the
\* header line and the separator line, in compact and in full mode: no
\* cell's text is longer than its column is wide, the index of any of up
\* to 999 rows included.
C10_Aligned ==
    /\ \A n \in 1..idx :
          /\ Len(Unstyled(DataLine(n))) = Len(out[2])
          /\ Len(out[3]) = Len(out[2])
          /\ \A m \in DOMAIN headers :
                Len(CellText(headers[m], rows[n], n)) <= col_widths[headers[m]]
    /\ pc = "blank" =>
          \A n \in 1..999 : Len(CellText(KHash, <<>>, n)) <= col_widths[KHash]

C10_Witness ==
    /\ pc = "done"
    /\ ~compact
    /\ Len(rows) = 3
    /\ \E a, b \in DOMAIN rows :
          /\ Wrapped(DataLine(a))
          /\ Len(Str(rows[a][KSnr])) + 2 = col_widths[KSnr]
          /\ KUser \in DOMAIN DictOf(nodes[PosIn(rows[b])].d)
          /\ Len(UserName(DictOf(nodes[PosIn(rows[b])].d)[KUser]).s) > 35

====
